---- MODULE Spec2Model ----
(***************************************************************************)
(* Offer registry of the p2p exchange contracts:                          *)
(*   packages/protocol/src/offer.rs   (Offer, OfferModel, OFFERS map)     *)
(*   packages/protocol/src/guards.rs  (assert_ownership, assert_min_g_max) *)
(* The OFFERS map is modelled as a function from raw keys (byte           *)
(* sequences) to serialized offers; OfferModel is a handle that bundles   *)
(* one in-memory Offer with the exclusive borrow of the storage.          *)
(***************************************************************************)
EXTENDS Integers, Sequences, FiniteSets, TLC

(* ------------------------------ bounds --------------------------------- *)
\* largest offer id used by the registry and command specifications
MaxId == 2
\* largest amount a message or an offer carries
MaxAmount == 1
\* largest offer id of the stores the range queries are run on
MaxQueryId == 3
\* an id beyond one byte, so that the byte order of the key matters
WideId == 256
\* largest page size asked of the paginated query
MaxLimit == 3
\* an amount of more than one decimal digit
WideAmount == 12
\* largest amount handed to the range guard on its own
MaxGuardAmount == 9

(* ------------------------- program constants --------------------------- *)
\* u64::to_be_bytes yields 8 bytes
U64Bytes == 8
\* a byte holds 256 values
ByteRange == 256

(* ------------------------------ domains -------------------------------- *)
Addrs == {"maker", "other"}
OfferTypes == {"Buy", "Sell"}
OfferStates == {"Active", "Paused"}
FiatCurrencies == {"X", "Y"}
Amounts == 0..MaxAmount
Ids == 1..MaxId

\* struct OfferMsg
OfferMsg == [offer_type : OfferTypes, fiat_currency : FiatCurrencies,
             min_amount : Amounts, max_amount : Amounts]

\* the messages the registry operations are driven with: every field takes
\* two values, and the amounts are once in order and once reversed
Msgs ==
    { [offer_type |-> "Buy", fiat_currency |-> "X",
       min_amount |-> 0, max_amount |-> WideAmount],
      [offer_type |-> "Sell", fiat_currency |-> "Y",
       min_amount |-> WideAmount, max_amount |-> 0] }

\* the messages the commands are driven with: every pair of amounts
CmdMsgs ==
    { m \in OfferMsg : m.offer_type = "Buy" /\ m.fiat_currency = "X" }

\* struct Offer, built as the command layer builds it from a message
NewOffer(id, owner, msg, state) ==
    [id |-> id, owner |-> owner, offer_type |-> msg.offer_type,
     fiat_currency |-> msg.fiat_currency, min_amount |-> msg.min_amount,
     max_amount |-> msg.max_amount, state |-> state]

\* the offers handed to store and create
Offer ==
    { NewOffer(id, owner, msg, state) :
        id \in Ids, owner \in Addrs, msg \in Msgs, state \in OfferStates }

(* ------------------------------ raw keys ------------------------------- *)
\* n >> (8 * k): the value shifted right by k bytes
RECURSIVE ShiftBytes(_, _)
ShiftBytes(n, k) == IF k = 0 THEN n ELSE ShiftBytes(n \div ByteRange, k - 1)

\* the key bytes in the opposite order: least significant byte first
to_le_bytes(id) ==
    [i \in 1..U64Bytes |-> ShiftBytes(id, i - 1) % ByteRange]

\* u64::to_be_bytes: most significant byte first
to_be_bytes(id) ==
    [i \in 1..U64Bytes |-> ShiftBytes(id, U64Bytes - i) % ByteRange]

\* the raw keys of the ids the specifications use, computed once
KeyIds == 0..(WideId + MaxQueryId + MaxId)
KeyOf == [id \in KeyIds |-> to_be_bytes(id)]

MinOf(a, b) == IF a < b THEN a ELSE b

\* Vec<u8> ordering of the storage: lexicographic, decided at the first byte
\* that differs; a proper prefix is smaller
LexLess(a, b) ==
    LET diff == { i \in 1..MinOf(Len(a), Len(b)) : a[i] # b[i] }
    IN  IF diff = {} THEN Len(a) < Len(b)
        ELSE LET i == CHOOSE x \in diff : \A y \in diff : x <= y
             IN  a[i] < b[i]

(* ------------------------------ the codec ------------------------------ *)
\* Uint128 is serialized as its decimal string
RECURSIVE Uint128ToString(_)
Uint128ToString(n) ==
    IF n < 10 THEN <<n>> ELSE Append(Uint128ToString(n \div 10), n % 10)

RECURSIVE Uint128FromString(_)
Uint128FromString(s) ==
    IF Len(s) = 0 THEN 0
    ELSE 10 * Uint128FromString(SubSeq(s, 1, Len(s) - 1)) + s[Len(s)]

\* #[serde(rename_all = "snake_case")] on OfferType and OfferState
SnakeCase(v) ==
    CASE v = "Buy" -> "buy"
      [] v = "Sell" -> "sell"
      [] v = "Active" -> "active"
      [] v = "Paused" -> "paused"

FromSnakeCase(s) ==
    CASE s = "buy" -> "Buy"
      [] s = "sell" -> "Sell"
      [] s = "active" -> "Active"
      [] s = "paused" -> "Paused"

\* a codec that writes min_amount into both amount fields
to_vec_one_amount(offer) ==
    << offer.id, offer.owner, SnakeCase(offer.offer_type), offer.fiat_currency,
       Uint128ToString(offer.min_amount), Uint128ToString(offer.min_amount),
       SnakeCase(offer.state) >>

\* Serialize for Offer: the fields in declaration order
to_vec(offer) ==
    << offer.id, offer.owner, SnakeCase(offer.offer_type), offer.fiat_currency,
       Uint128ToString(offer.min_amount), Uint128ToString(offer.max_amount),
       SnakeCase(offer.state) >>

\* Deserialize for Offer
from_slice(bytes) ==
    [id |-> bytes[1], owner |-> bytes[2], offer_type |-> FromSnakeCase(bytes[3]),
     fiat_currency |-> bytes[4], min_amount |-> Uint128FromString(bytes[5]),
     max_amount |-> Uint128FromString(bytes[6]), state |-> FromSnakeCase(bytes[7])]

(* --------------------------- the OFFERS map ---------------------------- *)
\* a write that drops every other record of the map
MapSaveAlone(st, key, offer) ==
    [k \in {key} |-> to_vec(offer)]

\* Map::save: one whole-record write under the key
MapSave(st, key, offer) ==
    [k \in (DOMAIN st) \cup {key} |-> IF k = key THEN to_vec(offer) ELSE st[k]]

\* a store that checks for existence first and writes only under a fresh id
store_if_absent(st, offer, ok) ==
    IF ok /\ KeyOf[offer.id] \notin DOMAIN st
    THEN MapSave(st, KeyOf[offer.id], offer) ELSE st

\* OfferModel::store; ok is the StdResult of OFFERS.save
store(st, offer, ok) ==
    IF ok THEN MapSave(st, KeyOf[offer.id], offer) ELSE st

\* Map::may_load: Some(offer) or None
HasOffer(st, id) == KeyOf[id] \in DOMAIN st

\* OfferModel::fetch by id, when the record exists
fetch(st, id) == from_slice(st[KeyOf[id]])

\* keys of a range scan in Order::Ascending: each key is put at its place
\* among the keys ordered before it
Ascending(keys) ==
    LET Insert[k \in keys, s \in Seq(keys)] ==
            LET n == Cardinality({ i \in 1..Len(s) : LexLess(s[i], k) })
            IN  SubSeq(s, 1, n) \o <<k>> \o SubSeq(s, n + 1, Len(s))
        Sorted[ks \in SUBSET keys] ==
            IF ks = {} THEN << >>
            ELSE LET k == CHOOSE x \in ks : TRUE
                 IN  Insert[k, Sorted[ks \ {k}]]
    IN  Sorted[keys]

\* Iterator::take
Take(s, n) == SubSeq(s, 1, MinOf(n, Len(s)))

\* Iterator::filter
Filter(s, cur) == SelectSeq(s, LAMBDA o : o.fiat_currency = cur)

\* the decoded offers of a key sequence; v is the key sequence, computed once
Decode(st, ks) ==
    CHOOSE r \in { [i \in 1..Len(v) |-> from_slice(st[v[i]])] : v \in {ks} } : TRUE

\* the full scan without its filter
query_all_unfiltered(st, fiat_currency) ==
    Decode(st, Ascending(DOMAIN st))

\* OfferModel::query_all_offers
query_all_offers(st, fiat_currency) ==
    Filter(Decode(st, Ascending(DOMAIN st)), fiat_currency)

\* the page with the filter applied before the limit
fetch_page_filter_first(st, fiat_currency, last_value, limit) ==
    Take(Filter(Decode(st, Ascending({k \in DOMAIN st : LexLess(last_value, k)})),
                fiat_currency),
         limit)

\* a sequence back to front
Reverse(s) == [i \in 1..Len(s) |-> s[Len(s) + 1 - i]]

\* the page scanned in Order::Descending
fetch_page_descending(st, fiat_currency, last_value, limit) ==
    Filter(Decode(st, Take(Reverse(Ascending({k \in DOMAIN st :
                                                LexLess(last_value, k)})),
                           limit)),
           fiat_currency)

\* the page with Bound::Inclusive: the entry at the cursor comes back again
fetch_page_inclusive(st, fiat_currency, last_value, limit) ==
    Filter(Decode(st, Take(Ascending({k \in DOMAIN st :
                                        k = last_value \/ LexLess(last_value, k)}),
                           limit)),
           fiat_currency)

\* OfferModel::fetch (paginated): Bound::Exclusive(last_value), take(limit), filter
fetch_page(st, fiat_currency, last_value, limit) ==
    Filter(Decode(st, Take(Ascending({k \in DOMAIN st : LexLess(last_value, k)}),
                           limit)),
           fiat_currency)

(* ------------------------------ guards --------------------------------- *)
NoErr == [kind |-> "none"]

\* the ownership guard with the two identities of the error exchanged
assert_ownership_swapped(caller, owner) ==
    IF caller = owner THEN NoErr
    ELSE [kind |-> "Unauthorized", owner |-> caller, caller |-> owner]

\* guards::assert_ownership
assert_ownership(caller, owner) ==
    IF caller = owner THEN NoErr
    ELSE [kind |-> "Unauthorized", owner |-> owner, caller |-> caller]

\* the range guard with the comparison off by one: equal amounts pass
assert_min_g_max_strict(min, max) ==
    IF min > max
    THEN [kind |-> "Std", msg |-> "Min amount must be greater than Max amount."]
    ELSE NoErr

\* the range guard with its arguments exchanged: it accepts min > max
assert_min_g_max_swapped(min, max) ==
    IF max >= min
    THEN [kind |-> "Std", msg |-> "Min amount must be greater than Max amount."]
    ELSE NoErr

\* guards::assert_min_g_max
assert_min_g_max(min, max) ==
    IF min >= max
    THEN [kind |-> "Std", msg |-> "Min amount must be greater than Max amount."]
    ELSE NoErr

(* ------------------- OfferModel: the in-memory part -------------------- *)
\* activate with the Active arm pasted from pause: it pauses, stores and fails
activate_pasted_arm(offer) ==
    IF offer.state = "Paused"
    THEN [offer |-> [offer EXCEPT !.state = "Active"], err |-> NoErr, write |-> TRUE]
    ELSE [offer |-> [offer EXCEPT !.state = "Paused"], write |-> TRUE,
          err |-> [kind |-> "InvalidStateChange", from |-> offer.state, to |-> "Active"]]

\* OfferModel::activate, the match on self.offer.state
activate(offer) ==
    IF offer.state = "Paused"
    THEN [offer |-> [offer EXCEPT !.state = "Active"], err |-> NoErr, write |-> TRUE]
    ELSE [offer |-> offer, write |-> FALSE,
          err |-> [kind |-> "InvalidStateChange", from |-> offer.state, to |-> "Active"]]

\* OfferModel::pause, the match on self.offer.state
pause(offer) ==
    IF offer.state = "Active"
    THEN [offer |-> [offer EXCEPT !.state = "Paused"], err |-> NoErr, write |-> TRUE]
    ELSE [offer |-> offer, write |-> FALSE,
          err |-> [kind |-> "InvalidStateChange", from |-> offer.state, to |-> "Paused"]]

\* OfferModel::update, the four field assignments
update(offer, msg) ==
    [offer EXCEPT !.offer_type = msg.offer_type,
                  !.fiat_currency = msg.fiat_currency,
                  !.min_amount = msg.min_amount,
                  !.max_amount = msg.max_amount]

(* ------------------------------- state --------------------------------- *)
VARIABLES
    storage,    \* the OFFERS map: raw key -> serialized Offer
    model,      \* the live OfferModel handle (its self.offer), or NoModel
    last        \* the call that ran last: its name, arguments and return value

vars == <<storage, model, last>>

NoModel == [id |-> 0]
Unit == [kind |-> "Unit"]
Panic == [kind |-> "Panic"]
StdErr == [kind |-> "Err", err |-> [kind |-> "Std", msg |-> "storage"]]
Returned(offer) == [kind |-> "Offer", offer |-> offer]
Failed(err) == [kind |-> "Err", err |-> err]

Init ==
    /\ storage = << >>
    /\ model = NoModel
    /\ last = [op |-> "init", ret |-> Unit]

(* -------------------- registry operations (offer.rs) ------------------- *)
\* the offer a store call has just written, when that call ran last
JustStored ==
    IF last.op = "store" /\ last.ret = Unit THEN last.arg ELSE NoModel

\* the StdResult of the OFFERS.save a call made
Saved(ok) == IF ok THEN "Ok" ELSE "Err"

\* the record persisted under an id when a call starts, or NoModel
PersistedUnder(id) ==
    IF HasOffer(storage, id) THEN fetch(storage, id) ELSE NoModel

\* OfferModel::store(storage, &offer) -> StdResult<()>
Store(offer, ok) ==
    /\ model = NoModel
    /\ storage' = store(storage, offer, ok)
    /\ last' = [op |-> "store", arg |-> offer, fresh |-> ~HasOffer(storage, offer.id),
                ret |-> IF ok THEN Unit ELSE StdErr]
    /\ UNCHANGED model

\* a fetch that hands out a zero-valued Offer for an id that is not stored
FetchOrDefault(id) ==
    /\ model = NoModel
    /\ last' = [op |-> "fetch", id |-> id, stored |-> JustStored,
                ret |-> IF HasOffer(storage, id)
                        THEN Returned(fetch(storage, id))
                        ELSE Returned(NewOffer(0, "", [offer_type |-> "Buy",
                                 fiat_currency |-> "", min_amount |-> 0,
                                 max_amount |-> 0], "Active"))]
    /\ UNCHANGED <<storage, model>>

\* OfferModel::fetch(storage, &id) -> Offer: unwrap() of None panics
Fetch(id) ==
    /\ model = NoModel
    /\ last' = [op |-> "fetch", id |-> id, stored |-> JustStored,
                ret |-> IF HasOffer(storage, id)
                        THEN Returned(fetch(storage, id)) ELSE Panic]
    /\ UNCHANGED <<storage, model>>

\* OfferModel::create(storage, offer) -> OfferModel: the result of store is dropped
Create(offer, ok) ==
    /\ model = NoModel
    /\ storage' = store(storage, offer, ok)
    /\ model' = offer
    /\ last' = [op |-> "create", self |-> offer, saved |-> Saved(ok),
                ret |-> Returned(offer)]

\* OfferModel::may_load(storage, &id) -> OfferModel
MayLoad(id) ==
    /\ model = NoModel
    /\ model' = IF HasOffer(storage, id) THEN fetch(storage, id) ELSE NoModel
    /\ last' = [op |-> "may_load", id |-> id, stored |-> JustStored,
                ret |-> IF HasOffer(storage, id)
                        THEN Returned(fetch(storage, id)) ELSE Panic]
    /\ UNCHANGED storage

\* OfferModel::activate(&mut self) -> Result<&Offer, OfferError>
Activate(ok) ==
    /\ model # NoModel
    /\ LET r == activate(model) IN
        /\ model' = r.offer
        /\ storage' = IF r.write THEN store(storage, r.offer, ok) ELSE storage
        /\ last' = [op |-> "activate", self |-> model,
                    saved |-> IF r.write THEN Saved(ok) ELSE "None",
                    ret |-> IF r.err = NoErr THEN Returned(r.offer) ELSE Failed(r.err)]

\* OfferModel::pause(&mut self) -> Result<&Offer, OfferError>
Pause(ok) ==
    /\ model # NoModel
    /\ LET r == pause(model) IN
        /\ model' = r.offer
        /\ storage' = IF r.write THEN store(storage, r.offer, ok) ELSE storage
        /\ last' = [op |-> "pause", self |-> model,
                    before |-> PersistedUnder(model.id),
                    saved |-> IF r.write THEN Saved(ok) ELSE "None",
                    ret |-> IF r.err = NoErr THEN Returned(r.offer) ELSE Failed(r.err)]

\* OfferModel::update(&mut self, msg) -> &Offer
Update(msg, ok) ==
    /\ model # NoModel
    /\ LET o == update(model, msg) IN
        /\ model' = o
        /\ storage' = store(storage, o, ok)
        /\ last' = [op |-> "update", self |-> model, msg |-> msg,
                    saved |-> Saved(ok), ret |-> Returned(o)]

\* OfferModel::save(self) -> Offer: consumes the handle
Save(ok) ==
    /\ model # NoModel
    /\ storage' = store(storage, model, ok)
    /\ model' = NoModel
    /\ last' = [op |-> "save", self |-> model, saved |-> Saved(ok),
                ret |-> Returned(model)]

\* the handle goes out of scope and the borrow of the storage ends
Release ==
    /\ model # NoModel
    /\ model' = NoModel
    /\ last' = [op |-> "release", ret |-> Unit]
    /\ UNCHANGED storage

Next ==
    \/ \E offer \in Offer, ok \in BOOLEAN : Store(offer, ok)
    \/ \E id \in Ids : Fetch(id)
    \/ \E offer \in Offer, ok \in BOOLEAN : Create(offer, ok)
    \/ \E id \in Ids : MayLoad(id)
    \/ \E ok \in BOOLEAN : Activate(ok)
    \/ \E ok \in BOOLEAN : Pause(ok)
    \/ \E msg \in Msgs, ok \in BOOLEAN : Update(msg, ok)
    \/ \E ok \in BOOLEAN : Save(ok)
    \/ Release

Spec == Init /\ [][Next]_vars

(* ------------- the command layer: guard, then registry call ------------ *)
\* ExecuteMsg::Create: the range guard, then OfferModel::create with a fresh id
CmdCreate(caller, id, msg, state) ==
    /\ model = NoModel
    /\ ~HasOffer(storage, id)
    /\ LET g == assert_min_g_max(msg.min_amount, msg.max_amount)
           offer == NewOffer(id, caller, msg, state)
       IN  IF g # NoErr
           THEN /\ last' = [op |-> "Create", id |-> id, ret |-> Failed(g)]
                /\ UNCHANGED storage
           ELSE /\ \E ok \in BOOLEAN : storage' = store(storage, offer, ok)
                /\ last' = [op |-> "Create", id |-> id, ret |-> Returned(offer)]
    /\ UNCHANGED model

\* ExecuteMsg::Activate: may_load, the ownership guard, then OfferModel::activate
CmdActivate(caller, id) ==
    /\ model = NoModel
    /\ HasOffer(storage, id)
    /\ LET self == fetch(storage, id)
           g == assert_ownership(caller, self.owner)
           r == activate(self)
       IN  IF g # NoErr
           THEN /\ last' = [op |-> "Activate", id |-> id, ret |-> Failed(g)]
                /\ UNCHANGED storage
           ELSE IF ~r.write
           THEN /\ last' = [op |-> "Activate", id |-> id, ret |-> Failed(r.err)]
                /\ UNCHANGED storage
           ELSE /\ \E ok \in BOOLEAN : storage' = store(storage, r.offer, ok)
                /\ last' = [op |-> "Activate", id |-> id,
                            ret |-> IF r.err = NoErr THEN Returned(r.offer)
                                    ELSE Failed(r.err)]
    /\ UNCHANGED model

\* ExecuteMsg::Pause: may_load, the ownership guard, then OfferModel::pause
CmdPause(caller, id) ==
    /\ model = NoModel
    /\ HasOffer(storage, id)
    /\ LET self == fetch(storage, id)
           g == assert_ownership(caller, self.owner)
           r == pause(self)
       IN  IF g # NoErr
           THEN /\ last' = [op |-> "Pause", id |-> id, ret |-> Failed(g)]
                /\ UNCHANGED storage
           ELSE IF ~r.write
           THEN /\ last' = [op |-> "Pause", id |-> id, ret |-> Failed(r.err)]
                /\ UNCHANGED storage
           ELSE /\ \E ok \in BOOLEAN : storage' = store(storage, r.offer, ok)
                /\ last' = [op |-> "Pause", id |-> id,
                            ret |-> IF r.err = NoErr THEN Returned(r.offer)
                                    ELSE Failed(r.err)]
    /\ UNCHANGED model

\* ExecuteMsg::Update: may_load, both guards, then OfferModel::update
CmdUpdate(caller, id, msg) ==
    /\ model = NoModel
    /\ HasOffer(storage, id)
    /\ LET self == fetch(storage, id)
           g1 == assert_ownership(caller, self.owner)
           g2 == assert_min_g_max(msg.min_amount, msg.max_amount)
           o == update(self, msg)
       IN  IF g1 # NoErr
           THEN /\ last' = [op |-> "Update", id |-> id, ret |-> Failed(g1)]
                /\ UNCHANGED storage
           ELSE IF g2 # NoErr
           THEN /\ last' = [op |-> "Update", id |-> id, ret |-> Failed(g2)]
                /\ UNCHANGED storage
           ELSE /\ \E ok \in BOOLEAN : storage' = store(storage, o, ok)
                /\ last' = [op |-> "Update", id |-> id, ret |-> Returned(o)]
    /\ UNCHANGED model

NextCmd ==
    \/ \E caller \in Addrs, id \in Ids, msg \in CmdMsgs, state \in OfferStates :
          CmdCreate(caller, id, msg, state)
    \/ \E caller \in Addrs, id \in Ids : CmdActivate(caller, id)
    \/ \E caller \in Addrs, id \in Ids : CmdPause(caller, id)
    \/ \E caller \in Addrs, id \in Ids, msg \in CmdMsgs : CmdUpdate(caller, id, msg)

SpecCmd == Init /\ [][NextCmd]_vars

(* ------------------------ the guards on their own ---------------------- *)
\* the u64 amounts handed to the range guard
GuardAmounts == 0..MaxGuardAmount

\* Result<(), OfferError> of a guard
GuardResult(g) == IF g = NoErr THEN Unit ELSE Failed(g)

\* guards::assert_ownership(caller, owner)
AssertOwnership(caller, owner) ==
    /\ last' = [op |-> "assert_ownership", caller |-> caller, owner |-> owner,
                ret |-> GuardResult(assert_ownership(caller, owner))]
    /\ UNCHANGED <<storage, model>>

\* guards::assert_min_g_max(min, max)
AssertMinGMax(min, max) ==
    /\ last' = [op |-> "assert_min_g_max", min |-> min, max |-> max,
                ret |-> GuardResult(assert_min_g_max(min, max))]
    /\ UNCHANGED <<storage, model>>

NextGuard ==
    \/ \E caller \in Addrs, owner \in Addrs : AssertOwnership(caller, owner)
    \/ \E min \in GuardAmounts, max \in GuardAmounts : AssertMinGMax(min, max)

SpecGuard == Init /\ [][NextGuard]_vars

(* ------------------------- the range queries --------------------------- *)
\* the ids of the offers the queries run over: a dense run and one wide id
QueryIds == (1..MaxQueryId) \cup {WideId}

\* the offers stored before the queries: they differ in id and currency
QueryOffers ==
    { NewOffer(id, "maker",
               [offer_type |-> "Buy", fiat_currency |-> cur,
                min_amount |-> 0, max_amount |-> WideAmount], "Active") :
        id \in QueryIds, cur \in FiatCurrencies }

\* the cursors: raw keys of ids (stored or not), and byte strings that are no key
Cursors ==
    { KeyOf[c] : c \in {0} \cup QueryIds }
        \cup { << >>, <<1>>, KeyOf[1] \o <<0>> }

\* QueryMsg::Offers: OfferModel::query_all_offers
QueryAll(cur) ==
    /\ model = NoModel
    /\ last' = [op |-> "query_all", cur |-> cur,
                ret |-> [kind |-> "Page", page |-> query_all_offers(storage, cur)]]
    /\ UNCHANGED <<storage, model>>

\* QueryMsg::OffersPage: OfferModel::fetch (paginated)
QueryPage(cur, cursor, limit) ==
    /\ model = NoModel
    /\ last' = [op |-> "query_page", cur |-> cur, cursor |-> cursor, limit |-> limit,
                ret |-> [kind |-> "Page",
                         page |-> fetch_page(storage, cur, cursor, limit)]]
    /\ UNCHANGED <<storage, model>>

NextQuery ==
    \/ \E offer \in QueryOffers, ok \in BOOLEAN : Store(offer, ok)
    \/ \E cur \in FiatCurrencies : QueryAll(cur)
    \/ \E cur \in FiatCurrencies, cursor \in Cursors, limit \in 0..MaxLimit :
          QueryPage(cur, cursor, limit)

SpecQuery == Init /\ [][NextQuery]_vars

(* ------------------- a traversal of the store by pages ----------------- *)
\* the cursors a traversal starts with: two below every key of a stored id,
\* and the key of id 1
StartCursors == { << >>, KeyOf[0], KeyOf[1] }

\* the offers stored before a traversal: the ids of the registry and the wide
\* id, in either currency
TraverseOffers == { o \in QueryOffers : o.id \in Ids \cup {WideId} }

\* no traversal is under way
Idle == IF last.op = "traverse" THEN last.done ELSE TRUE

\* the caller picks currency, first cursor and page size; no call is made yet
TraverseStart(cur, cursor, limit) ==
    /\ model = NoModel
    /\ Idle
    /\ last' = [op |-> "traverse", cur |-> cur, start |-> cursor, limit |-> limit,
                cursor |-> cursor, acc |-> << >>, calls |-> 0, done |-> FALSE,
                ret |-> Unit]
    /\ UNCHANGED <<storage, model>>

\* one OfferModel::fetch (paginated) call of the traversal: an empty page ends
\* it, otherwise the raw key of the last offer returned is the next cursor
TraverseStep ==
    /\ last.op = "traverse"
    /\ ~last.done
    /\ \E page \in { fetch_page(storage, last.cur, last.cursor, last.limit) } :
          last' = [last EXCEPT
                     !.cursor = IF page = << >> THEN @
                                ELSE KeyOf[page[Len(page)].id],
                     !.acc = @ \o page,
                     !.calls = @ + 1,
                     !.done = (page = << >>),
                     !.ret = [kind |-> "Page", page |-> page]]
    /\ UNCHANGED <<storage, model>>

\* the store is written only between traversals
NextTraverse ==
    \/ \E offer \in TraverseOffers, ok \in BOOLEAN : Idle /\ Store(offer, ok)
    \/ \E cur \in FiatCurrencies, cursor \in StartCursors, limit \in 0..MaxLimit :
          TraverseStart(cur, cursor, limit)
    \/ TraverseStep

\* the caller keeps calling until a page comes back empty, and every call
\* returns: a traversal under way takes its next step
SpecTraverse == Init /\ [][NextTraverse]_vars /\ WF_vars(TraverseStep)

(* ------------- registry operations and queries on one store ------------ *)
\* the pages asked between the registry operations: from the start and from
\* after the first id, one offer at a time and MaxLimit at a time
PageCursors == { KeyOf[0], KeyOf[1] }
PageLimits == { 1, MaxLimit }

NextAll ==
    \/ Next
    \/ \E cur \in FiatCurrencies : QueryAll(cur)
    \/ \E cur \in FiatCurrencies, cursor \in PageCursors, limit \in PageLimits :
          QueryPage(cur, cursor, limit)

SpecAll == Init /\ [][NextAll]_vars

(* ============================== properties ============================= *)
\* the record persisted under a raw key, decoded
Persisted(k) == from_slice(storage[k])

\* the ids of the persisted records
StoredIds == { Persisted(k).id : k \in DOMAIN storage }

InvalidStateChange(from, to) ==
    [kind |-> "InvalidStateChange", from |-> from, to |-> to]

\* C1: activate() on a loaded offer has exactly two outcomes: from Paused the
\* offer becomes Active and the record persisted under its id has state
\* Active; from Active the call fails with InvalidStateChange{Active, Active}
\* and the offer stays Active.
C1_ActivateOutcome ==
    last.op = "activate" =>
        \/ /\ last.self.state = "Paused"
           /\ last.ret = Returned(model)
           /\ model.state = "Active"
           /\ HasOffer(storage, model.id)
           /\ fetch(storage, model.id).state = "Active"
        \/ /\ last.self.state = "Active"
           /\ last.ret = Failed(InvalidStateChange("Active", "Active"))
           /\ model.state = "Active"

\* C2: pause() on a loaded offer has exactly two outcomes: from Active the
\* offer becomes Paused and the record persisted under its id has state
\* Paused; from Paused the call fails with InvalidStateChange{Paused, Paused}
\* and the offer stays Paused.
C2_PauseOutcome ==
    last.op = "pause" =>
        \/ /\ last.self.state = "Active"
           /\ last.ret = Returned(model)
           /\ model.state = "Paused"
           /\ HasOffer(storage, model.id)
           /\ fetch(storage, model.id).state = "Paused"
        \/ /\ last.self.state = "Paused"
           /\ last.ret = Failed(InvalidStateChange("Paused", "Paused"))
           /\ model.state = "Paused"

\* C3: a command that returns an error (InvalidStateChange from activate or
\* pause, Unauthorized or the range error from a guard) leaves the whole
\* store, every record under every key, as it was before the command.
C3_FailedMutationPersistsNothing ==
    [][last'.ret.kind = "Err" => storage' = storage]_vars

\* a store of two records on which a command has just failed in each way
C3_Witness ==
    /\ Cardinality(DOMAIN storage) >= 2
    /\ last.ret.kind = "Err"
    /\ last.ret.err.kind = "InvalidStateChange"
    /\ last.op = "Activate"

\* C4: create, activate, pause and update return the Offer only when it is
\* what is persisted under its id, and report a storage error when the
\* store write fails.
C4_ReturnsOfferOrStorageError ==
    last.op \in {"create", "activate", "pause", "update"} =>
        /\ last.ret.kind = "Offer" =>
              /\ HasOffer(storage, last.ret.offer.id)
              /\ fetch(storage, last.ret.offer.id) = last.ret.offer
        /\ last.saved = "Err" => last.ret = StdErr

\* C5: update(fields) keeps id, owner and state, sets offer_type,
\* fiat_currency, min_amount and max_amount to the supplied values, and
\* persists the result under the same id.
C5_UpdateFrame ==
    last.op = "update" =>
        /\ model.id = last.self.id
        /\ model.owner = last.self.owner
        /\ model.state = last.self.state
        /\ model.offer_type = last.msg.offer_type
        /\ model.fiat_currency = last.msg.fiat_currency
        /\ model.min_amount = last.msg.min_amount
        /\ model.max_amount = last.msg.max_amount
        /\ last.ret = Returned(model)
        /\ HasOffer(storage, last.self.id)
        /\ fetch(storage, last.self.id) = model

\* C6: with assert_min_g_max run before every create and every update, every
\* persisted offer has min_amount < max_amount, in every reachable state.
C6_MinBelowMax ==
    \A k \in DOMAIN storage : Persisted(k).min_amount < Persisted(k).max_amount

\* an update has just been accepted and written over a created offer
C6_Witness ==
    /\ last.op = "Update"
    /\ last.ret.kind = "Offer"
    /\ HasOffer(storage, last.id)
    /\ fetch(storage, last.id) = last.ret.offer
    /\ Cardinality(DOMAIN storage) >= 2

\* the raw keys of the offers of a page
PageKeys(page) == { KeyOf[page[i].id] : i \in 1..Len(page) }

\* the first `limit` stored keys strictly after the cursor
FirstAfter(cursor, limit) ==
    LET after == { k \in DOMAIN storage : LexLess(cursor, k) }
    IN  { k \in after : Cardinality({ j \in after : LexLess(j, k) }) < limit }

\* C7: query_page(currency, cursor, limit) returns, in ascending key order,
\* exactly those of the first `limit` stored entries after the cursor whose
\* fiat_currency is the requested one: the limit is applied before the filter.
C7_PageIsLimitThenFilter ==
    last.op = "query_page" =>
        LET page == last.ret.page
            taken == FirstAfter(last.cursor, last.limit)
        IN  /\ \A i \in 1..Len(page) :
                  /\ KeyOf[page[i].id] \in taken
                  /\ page[i] = Persisted(KeyOf[page[i].id])
                  /\ page[i].fiat_currency = last.cur
            /\ \A i \in 1..(Len(page) - 1) :
                  LexLess(KeyOf[page[i].id], KeyOf[page[i + 1].id])
            /\ \A k \in taken :
                  Persisted(k).fiat_currency = last.cur => k \in PageKeys(page)

\* the page is empty although an offer in the requested currency is stored
\* beyond the first `limit` entries
C7_Witness ==
    /\ last.op = "query_page"
    /\ last.cursor = KeyOf[0]
    /\ last.limit >= 2
    /\ Cardinality(DOMAIN storage) > last.limit
    /\ last.ret.page = << >>
    /\ \E k \in DOMAIN storage : Persisted(k).fiat_currency = last.cur

\* C8: when every stored offer is in the requested currency, query_page with
\* the key of id c as cursor returns, in ascending id order, the `limit`
\* smallest stored ids greater than c (all of them if fewer remain).
C8_PageOfOneCurrency ==
    ( /\ last.op = "query_page"
      /\ \A k \in DOMAIN storage : Persisted(k).fiat_currency = last.cur ) =>
        \A c \in {0} \cup QueryIds :
            last.cursor = KeyOf[c] =>
                LET page == last.ret.page
                    after == { i \in StoredIds : i > c }
                    want == { i \in after :
                                Cardinality({ j \in after : j < i }) < last.limit }
                IN  /\ Len(page) = Cardinality(want)
                    /\ \A i \in 1..Len(page) : page[i].id \in want
                    /\ \A i \in 1..(Len(page) - 1) : page[i].id < page[i + 1].id

\* a full page that starts after a stored cursor and stops before the last
\* offer, the wide id among the stored ones
C8_Witness ==
    /\ last.op = "query_page"
    /\ \A k \in DOMAIN storage : Persisted(k).fiat_currency = last.cur
    /\ last.cursor \in DOMAIN storage
    /\ last.limit >= 2
    /\ Len(last.ret.page) = last.limit
    /\ WideId \in StoredIds
    /\ \E i \in StoredIds : i > last.ret.page[last.limit].id

\* C9: query_all(X) returns offers in ascending id order, only offers in
\* currency X, and every stored offer in currency X exactly once.
C9_QueryAll ==
    last.op = "query_all" =>
        LET page == last.ret.page
        IN  /\ \A i \in 1..(Len(page) - 1) : page[i].id < page[i + 1].id
            /\ \A i \in 1..Len(page) :
                  /\ page[i].fiat_currency = last.cur
                  /\ HasOffer(storage, page[i].id)
                  /\ page[i] = fetch(storage, page[i].id)
            /\ \A k \in DOMAIN storage :
                  Persisted(k).fiat_currency = last.cur =>
                      Cardinality({ i \in 1..Len(page) : page[i] = Persisted(k) }) = 1

\* a scan that returned several offers, the wide id last, and left one out
C9_Witness ==
    /\ last.op = "query_all"
    /\ Len(last.ret.page) >= 2
    /\ last.ret.page[Len(last.ret.page)].id = WideId
    /\ \E k \in DOMAIN storage : Persisted(k).fiat_currency # last.cur

\* C10: an offer loaded by its id right after it was stored equals the stored
\* one in all seven fields, whatever the store held before.
C10_RoundTrip ==
    ( /\ last.op \in {"fetch", "may_load"}
      /\ last.stored # NoModel
      /\ last.id = last.stored.id ) =>
        /\ last.ret.kind = "Offer"
        /\ last.ret.offer.id = last.stored.id
        /\ last.ret.offer.owner = last.stored.owner
        /\ last.ret.offer.offer_type = last.stored.offer_type
        /\ last.ret.offer.fiat_currency = last.stored.fiat_currency
        /\ last.ret.offer.min_amount = last.stored.min_amount
        /\ last.ret.offer.max_amount = last.stored.max_amount
        /\ last.ret.offer.state = last.stored.state

\* an offer with a two-digit amount was stored over another record and loaded
C10_Witness ==
    /\ last.op = "fetch"
    /\ last.stored # NoModel
    /\ last.id = last.stored.id
    /\ last.ret = Returned(last.stored)
    /\ last.stored.min_amount = WideAmount
    /\ last.stored.max_amount = 0
    /\ Cardinality(DOMAIN storage) >= 2

\* C11: starting from a loaded offer whose persisted record is Active, pause()
\* followed by activate() both return the offer, the second with state Active,
\* and the record persisted after the two calls equals the record persisted
\* before them in every field.
C11_PauseThenActivate ==
    [][ ( /\ last.op = "pause"
          /\ last.self.state = "Active"
          /\ last.before = last.self
          /\ last'.op = "activate" ) =>
            /\ last.ret.kind = "Offer"
            /\ last'.ret.kind = "Offer"
            /\ last'.ret.offer.state = "Active"
            /\ HasOffer(storage', last.self.id)
            /\ fetch(storage', last.self.id) = last.before ]_vars

\* C12: an offer is never deleted: over every step of create, store, pause,
\* activate, update, save, load and the two queries, every key that holds a
\* record still holds one afterwards, and the set of stored ids never shrinks.
C12_NeverDeleted ==
    [][ /\ DOMAIN storage \subseteq DOMAIN storage'
        /\ \A id \in Ids : HasOffer(storage, id) => HasOffer(storage', id) ]_vars

\* every id is stored and a record has just been overwritten by update
C12_Witness ==
    /\ last.op = "update"
    /\ last.saved = "Ok"
    /\ StoredIds = Ids
    /\ fetch(storage, last.self.id) # last.self

\* C13: assert_ownership(caller, owner) succeeds if and only if caller equals
\* owner; otherwise it fails with Unauthorized carrying the owner as owner and
\* the caller as caller.
C13_OwnershipGuard ==
    last.op = "assert_ownership" =>
        /\ last.ret = Unit <=> last.caller = last.owner
        /\ last.caller # last.owner =>
              /\ last.ret.kind = "Err"
              /\ last.ret.err.kind = "Unauthorized"
              /\ last.ret.err.owner = last.owner
              /\ last.ret.err.caller = last.caller

\* the guard has just refused a caller who is not the owner
C13_Witness ==
    /\ last.op = "assert_ownership"
    /\ last.caller = "other"
    /\ last.owner = "maker"
    /\ last.ret.kind = "Err"

\* C14: assert_min_g_max(min, max) succeeds if and only if min < max; for
\* min >= max, equal amounts included, it fails with the generic (Std) error.
C14_RangeGuard ==
    last.op = "assert_min_g_max" =>
        /\ last.ret = Unit <=> last.min < last.max
        /\ last.min >= last.max =>
              /\ last.ret.kind = "Err"
              /\ last.ret.err.kind = "Std"

\* the guard has just refused two equal amounts
C14_Witness ==
    /\ last.op = "assert_min_g_max"
    /\ last.min = last.max
    /\ last.min > 0
    /\ last.ret.kind = "Err"

\* C15: store(offer) is an idempotent overwrite with no existence check: a
\* store (or the store inside create) whose write succeeds puts the whole
\* offer under its key whether or not the id was present, touches no other
\* key, and adds a record only when the id is fresh; the only failure is the
\* write error of the map, which changes nothing; and the same offer stored a
\* second time leaves the store as the first store left it.
C15_StoreOverwrites ==
    [][ /\ last'.op = "store" =>
              /\ last'.ret \in {Unit, StdErr}
              /\ last'.ret = StdErr => storage' = storage
        /\ ( \/ last'.op = "store" /\ last'.ret = Unit
             \/ last'.op = "create" /\ last'.saved = "Ok" ) =>
              LET offer == IF last'.op = "store" THEN last'.arg ELSE last'.self
                  k == KeyOf[offer.id]
              IN  /\ DOMAIN storage' = DOMAIN storage \cup {k}
                  /\ storage'[k] = to_vec(offer)
                  /\ \A j \in DOMAIN storage \ {k} : storage'[j] = storage[j]
                  /\ Cardinality(DOMAIN storage') =
                        Cardinality(DOMAIN storage)
                          + (IF k \in DOMAIN storage THEN 0 ELSE 1)
        /\ ( /\ last.op = "store" /\ last.ret = Unit
             /\ last'.op = "store" /\ last'.ret = Unit
             /\ last'.arg = last.arg ) => storage' = storage ]_vars

\* a store has just overwritten the record of a present id, next to another
C15_Witness ==
    /\ last.op = "store"
    /\ last.ret = Unit
    /\ ~last.fresh
    /\ fetch(storage, last.arg.id) = last.arg
    /\ Cardinality(DOMAIN storage) >= 2

\* C16: loading an id that has no stored record, by fetch or by may_load, is
\* fatal: the call panics, so it returns neither an Offer (no default or
\* zero-valued one) nor a recoverable error, no handle comes to exist, and
\* the store is left unchanged.
C16_MissingLoadIsFatal ==
    [][ ( /\ last'.op \in {"fetch", "may_load"}
          /\ ~HasOffer(storage, last'.id) ) =>
            /\ last'.ret = Panic
            /\ model' = NoModel
            /\ storage' = storage ]_vars

\* may_load has just panicked on an id that is missing from a store that
\* holds another record
C16_Witness ==
    /\ last.op = "may_load"
    /\ ~HasOffer(storage, last.id)
    /\ last.ret = Panic
    /\ model = NoModel
    /\ storage # << >>

\* the offers of a sequence whose raw key is strictly after the cursor
AfterCursor(offers, cursor) ==
    SelectSeq(offers, LAMBDA o : LexLess(cursor, KeyOf[o.id]))

\* C17: for every store, currency, cursor and limit, the page returned by
\* query_page is a prefix of query_all of the same currency restricted to the
\* offers whose key is strictly greater than the cursor, and it holds at most
\* `limit` offers.
C17_PageIsPrefixOfAll ==
    last.op = "query_page" =>
        LET page == last.ret.page
            rest == AfterCursor(query_all_offers(storage, last.cur), last.cursor)
        IN  /\ Len(page) <= last.limit
            /\ Len(page) <= Len(rest)
            /\ page = SubSeq(rest, 1, Len(page))

\* a page that starts after a stored cursor, dropped an offer of the other
\* currency, and stops before the last matching offer
C17_Witness ==
    /\ last.op = "query_page"
    /\ last.cursor \in DOMAIN storage
    /\ Len(last.ret.page) >= 1
    /\ Len(last.ret.page) < last.limit
    /\ Len(last.ret.page) <
          Len(AfterCursor(query_all_offers(storage, last.cur), last.cursor))

\* the traversal the claim speaks of: every stored offer is in the requested
\* currency, the page size is at least 1, the first cursor is smaller than
\* every stored key
WholeTraversal ==
    /\ last.op = "traverse"
    /\ last.limit >= 1
    /\ \A k \in DOMAIN storage :
          /\ Persisted(k).fiat_currency = last.cur
          /\ LexLess(last.start, k)

\* C18: when every stored offer is in currency X, limit >= 1 and the store is
\* not modified in between, the traversal that starts below every stored key
\* and continues from the key of the last offer returned until a page comes
\* back empty terminates, and the concatenation of its pages equals
\* query_all(X).
C18_FullTraversal ==
    /\ [](WholeTraversal /\ last.done =>
            last.acc = query_all_offers(storage, last.cur))
    /\ (WholeTraversal /\ ~last.done) ~> (WholeTraversal /\ last.done)

\* a finished traversal of several pages that visited more offers than one
\* page holds, the wide id among them
C18_Witness ==
    /\ WholeTraversal
    /\ last.done
    /\ last.limit >= 2
    /\ last.calls >= 3
    /\ Len(last.acc) > last.limit
    /\ last.acc[Len(last.acc)].id = WideId
    /\ last.acc = query_all_offers(storage, last.cur)

\* C19: mutations are local to one record: activate(), pause() and update()
\* on the offer with id i leave the record of every other id as it was and
\* add no record under another id; an activate() or pause() that returns the
\* offer changes only the state field of the record stored under i; query_all
\* and query_page change no record.
C19_MutationsAreLocal ==
    [][ /\ last'.op \in {"activate", "pause", "update"} =>
              LET k == KeyOf[last'.self.id]
              IN  /\ DOMAIN storage' \subseteq DOMAIN storage \cup {k}
                  /\ \A j \in DOMAIN storage \ {k} :
                        j \in DOMAIN storage' /\ storage'[j] = storage[j]
        /\ ( /\ last'.op \in {"activate", "pause"}
             /\ last'.ret.kind = "Offer" ) =>
              LET k == KeyOf[last'.self.id]
              IN  k \in DOMAIN storage =>
                    /\ k \in DOMAIN storage'
                    /\ [from_slice(storage'[k]) EXCEPT !.state = "Active"]
                          = [from_slice(storage[k]) EXCEPT !.state = "Active"]
        /\ last'.op \in {"query_all", "query_page"} => storage' = storage ]_vars

====
